---- MODULE Spec2Model ----
(***************************************************************************)
(* Model of the `utility` crate: the read-throughput meter                 *)
(* (src/src/measure.rs) and the tracing setup (src/src/tracing.rs).        *)
(*                                                                         *)
(* Time is counted in milliseconds.  The f64 fields are kept as exact      *)
(* fractions <<numerator, denominator>>; the f64 results that are not      *)
(* numbers (a division by zero) are kept as the values Inf and NaN.   *)
(***************************************************************************)
EXTENDS Integers, Sequences, FiniteSets, TLC

\* ------------------------------------------------------------------------
\* Bounds of the model
\* ------------------------------------------------------------------------
MaxReads == 3       \* read calls on one MeasuringReader
MaxSrc == 3         \* bytes the wrapped source holds
MaxHint == 2        \* largest size_hint given to with_size_hint
MaxChunk == 2       \* most bytes one read returns

MaxInits == 2       \* init calls in one process
MaxEvents == 2      \* events emitted
MaxPanics == 1      \* panics raised by code outside this crate
MaxIoErrors == 1    \* I/O operations that fail
MaxCalls == 4       \* with_ methods applied to one builder

\* what one read call of the wrapped source can take, in ms
Delays == {0, 4, 10}

\* the threads of the process
Threads == {"t1", "t2"}

\* the paths given to with_file
Paths == {"log.txt"}

\* tracing::Level, least severe first
LevelOrder == <<"TRACE", "DEBUG", "INFO", "WARN", "ERROR">>
\* the levels given to with_level, and the levels of the events emitted
LevelInputs == {"DEBUG", "WARN"}
EventLevels == {"DEBUG", "INFO", "WARN"}

\* ------------------------------------------------------------------------
\* Values
\* ------------------------------------------------------------------------
None == <<"None">>
Some(x) == <<"Some", x>>
Err == <<"Err">>
Ok(x) == <<"Ok", x>>
Panicked == <<"panicked">>
Unasked == <<"unasked">>
Dropped(x) == <<"Dropped", x>>
\* the f64 values that are not numbers
NaN == <<"nan">>
Inf == <<"inf">>

\* ------------------------------------------------------------------------
\* Fractions
\* ------------------------------------------------------------------------
RECURSIVE Gcd(_, _)
Gcd(a, b) == IF b = 0 THEN a ELSE Gcd(b, a % b)

Frac(n, d) == IF n = 0 THEN <<0, 1>> ELSE <<n \div Gcd(n, d), d \div Gcd(n, d)>>
FracAdd(x, y) == Frac(x[1] * y[2] + y[1] * x[2], x[2] * y[2])
FracMul(x, y) == Frac(x[1] * y[1], x[2] * y[2])
FracDiv(x, y) == Frac(x[1] * y[2], x[2] * y[1])
FracLess(x, y) == x[1] * y[2] < y[1] * x[2]
Zero == <<0, 1>>
One == <<1, 1>>

\* ------------------------------------------------------------------------
\* measure.rs: constants
\* ------------------------------------------------------------------------
ALPHA == <<1, 2>>
UPDATE_RATE == 10

VARIABLES
    inner,       \* MeasuringReader.inner: bytes the wrapped source still holds
    size_hint,   \* MeasuringReader.size_hint
    total,       \* MeasuringReader.total
    avg,         \* MeasuringReader.avg
    buf,         \* MeasuringReader.buf: [time, read]
    now,         \* the monotonic clock (Instant::now())
    srcLen,      \* bytes the wrapped source held at construction
    results,     \* what each read call returned, in order: Err or Ok(byte count)
    eta,         \* what time_remaining did since the last read: Unasked or its outcome
    pct          \* what percentage returned since the last read: Unasked or its result

mvars == <<inner, size_hint, total, avg, buf, now, srcLen, results, eta, pct>>

\* ------------------------------------------------------------------------
\* tracing.rs: state
\* ------------------------------------------------------------------------
VARIABLES
    pc,          \* where each thread is
    ev,          \* the event a thread is writing to the file (0: none)
    pan,         \* the panic a thread is handling (0: none)
    hpos,        \* which closure of the hook chain a panicking thread is in
    subscriber,  \* the global default subscriber: None or Some(layers)
    hook,        \* the process panic hook: the writers of the chained
                 \* closures, newest first; the default hook is below them
    writers,     \* every Writer(Arc<Mutex<BufWriter<File>>>) made by init
    disk,        \* the file at each path
    events,      \* every event emitted, in order
    inits,       \* every init call, in order: its file path and whether it succeeded
    installedBy, \* the builder whose init installed the subscriber: None or Some(b)
    slept,       \* times a thread slept for TRACY_CONNECTION_TIMEOUT
    defer,       \* the TracingDefer init returned: None, Some(guard) or Dropped(guard)
    panics,      \* panics raised so far
    appPanics,   \* of these, the ones raised by code outside this crate
    ioErrors,    \* I/O operations that failed so far
    invoked,     \* invocations of a closure installed by init
    delegated,   \* calls of old_hook(info) by such a closure
    aborted      \* the process aborted (a panic inside the panic hook)

tvars == <<pc, ev, pan, hpos, subscriber, hook, writers, disk, events, inits, installedBy,
           slept, defer, panics, appPanics, ioErrors, invoked, delegated, aborted>>

\* a TracingBuilder being put together, before init
VARIABLES
    builder,     \* the TracingBuilder value
    calls        \* the with_ methods applied to it so far, in order

bvars == <<builder, calls>>

vars == <<mvars, tvars, bvars>>

\* a file: whether it exists, and its contents
NoFile == [exists |-> FALSE, cells |-> <<>>]
File(cells) == [exists |-> TRUE, cells |-> cells]
Free == "free"

\* one write call's worth of an event or of a panic report
Chunk(kind, n, w, part) == [kind |-> kind, n |-> n, w |-> w, part |-> part]
Hole == Chunk("hole", 0, 0, "hole")

\* ------------------------------------------------------------------------
\* tracing.rs: TracingBuilder
\* ------------------------------------------------------------------------
Builders ==
    [log_to_stdout : BOOLEAN, log_to_tracy : BOOLEAN,
     log_to_file : {None} \cup {Some(p) : p \in Paths},
     log_level : {None} \cup {Some(l) : l \in LevelInputs}]

\* lines 40-47
empty ==
    [log_to_stdout |-> FALSE, log_to_tracy |-> FALSE,
     log_to_file |-> None, log_level |-> None]

\* lines 50-53
with_stdout(b) == [b EXCEPT !.log_to_stdout = TRUE]
\* lines 57-60
with_tracy(b) == [b EXCEPT !.log_to_tracy = TRUE]
\* a with_file that starts again from the empty builder
with_file_from_empty(b, path) == [log_to_stdout |-> FALSE, log_to_tracy |-> FALSE,
                                  log_to_file |-> Some(path), log_level |-> None]
\* lines 63-66
with_file(b, path) == [b EXCEPT !.log_to_file = Some(path)]
\* lines 69-72
with_level(b, level) == [b EXCEPT !.log_level = Some(level)]

\* line 138: Default for TracingBuilder
default == with_stdout(empty)
\* line 147
stdout == with_stdout(empty)
\* line 156
tracy == with_tracy(empty)
\* line 164
file(path) == with_file(empty, path)

InitB ==
    /\ builder = empty
    /\ calls = <<>>

InitT ==
    /\ pc = [t \in Threads |-> "idle"]
    /\ ev = [t \in Threads |-> 0]
    /\ pan = [t \in Threads |-> 0]
    /\ hpos = [t \in Threads |-> 0]
    /\ subscriber = None
    /\ hook = <<>>
    /\ writers = <<>>
    /\ disk = [p \in Paths |-> NoFile]
    /\ events = <<>>
    /\ inits = <<>>
    /\ installedBy = None
    /\ slept = 0
    /\ defer = None
    /\ panics = 0
    /\ appPanics = 0
    /\ ioErrors = 0
    /\ invoked = 0
    /\ delegated = 0
    /\ aborted = FALSE

\* ------------------------------------------------------------------------
\* measure.rs: MeasuringReader
\* ------------------------------------------------------------------------
Min(a, b) == IF a < b THEN a ELSE b

\* Buffer::new(): the window starts at the current instant, empty
BufferNew(t) == [time |-> t, read |-> 0]

\* MeasuringReader::new(inner)
New(src) ==
    /\ inner = src
    /\ size_hint = None
    /\ total = 0
    /\ avg = Zero
    /\ buf = BufferNew(0)

\* MeasuringReader::with_size_hint(inner, n)
WithSizeHint(src, n) ==
    /\ inner = src
    /\ size_hint = Some(n)
    /\ total = 0
    /\ avg = Zero
    /\ buf = BufferNew(0)

InitM ==
    /\ \E src \in 0..MaxSrc :
          /\ srcLen = src
          /\ \/ New(src)
             \/ \E n \in 0..MaxHint : WithSizeHint(src, n)
    /\ now = 0
    /\ results = <<>>
    /\ eta = Unasked
    /\ pct = Unasked

\* line 111: buf.read as f64 / elapsed.as_secs_f64(), elapsed in ms
Speed(read, elapsed) == Frac(read * 1000, elapsed)

\* a smoothing that forgets the new sample
SmoothDropsSample(speed, old) == FracMul(FracAdd(One, <<-ALPHA[1], ALPHA[2]>>), old)

\* line 112: ALPHA * speed + (1.0 - ALPHA) * avg
Smooth(speed, old) == FracAdd(FracMul(ALPHA, speed), FracMul(FracAdd(One, <<-ALPHA[1], ALPHA[2]>>), old))

\* an update only when more than the minimum update rate has passed
UpdateDueStrict(elapsed) == elapsed > UPDATE_RATE

\* line 110: the minimum update rate has been surpassed
UpdateDue(elapsed) == elapsed >= UPDATE_RATE

\* a failing read that restarts the window
ReadErrRestartsWindow(d) ==
    /\ Len(results) < MaxReads
    /\ UNCHANGED <<tvars, bvars>>
    /\ now' = now + d
    /\ buf' = BufferNew(now')
    /\ results' = Append(results, Err)
    /\ eta' = Unasked
    /\ pct' = Unasked
    /\ UNCHANGED <<inner, size_hint, total, avg, srcLen>>

\* line 104, the Err arm of `?`: the error is returned, nothing else happens.
\* The wrapped source took d ms to fail.
ReadErr(d) ==
    /\ Len(results) < MaxReads
    /\ UNCHANGED <<tvars, bvars>>
    /\ now' = now + d
    /\ results' = Append(results, Err)
    /\ eta' = Unasked
    /\ pct' = Unasked
    /\ UNCHANGED <<inner, size_hint, total, avg, buf, srcLen>>

\* line 117 as an assignment: total = read
TotalAssigned(old, k) == k

\* line 117: self.total += read
TotalAdd(old, k) == old + k

\* a read that returns early, before the timing logic, when it got no bytes
ReadOkSkipsEmpty(d, k) ==
    /\ Len(results) < MaxReads
    /\ UNCHANGED <<tvars, bvars>>
    /\ k <= inner
    /\ inner' = inner - k
    /\ now' = now + d
    /\ LET elapsed == now' - buf.time
           read == buf.read + k
       IN  IF k # 0 /\ UpdateDue(elapsed)
           THEN /\ avg' = Smooth(Speed(read, elapsed), avg)
                /\ buf' = BufferNew(now')
           ELSE /\ avg' = avg
                /\ buf' = [buf EXCEPT !.read = read]
    /\ total' = TotalAdd(total, k)
    /\ results' = Append(results, Ok(k))
    /\ eta' = Unasked
    /\ pct' = Unasked
    /\ UNCHANGED <<size_hint, srcLen>>

\* lines 104-119, the Ok arm: the wrapped source took d ms to return k bytes
ReadOk(d, k) ==
    /\ Len(results) < MaxReads
    /\ UNCHANGED <<tvars, bvars>>
    /\ k <= inner
    /\ inner' = inner - k
    /\ now' = now + d
    /\ LET elapsed == now' - buf.time
           read == buf.read + k
       IN  IF UpdateDue(elapsed)
           THEN /\ avg' = Smooth(Speed(read, elapsed), avg)
                /\ buf' = BufferNew(now')
           ELSE /\ avg' = avg
                /\ buf' = [buf EXCEPT !.read = read]
    /\ total' = TotalAdd(total, k)
    /\ results' = Append(results, Ok(k))
    /\ eta' = Unasked
    /\ pct' = Unasked
    /\ UNCHANGED <<size_hint, srcLen>>

\* lines 85-91.  `size_hint - self.total` is a usize subtraction: with
\* total > size_hint it panics where overflow checks are compiled in and
\* wraps to 2^64 - (total - size_hint) where they are not.  That value
\* rounds to 2^64 as an f64, and Duration::try_from_secs_f64 accepts
\* 2^64 / avg only when it is below 2^64 seconds, that is when avg > 1.
\* Duration::try_from_secs_f64 rejects a NaN and an infinity.
time_remaining ==
    IF size_hint = None THEN {None}
    ELSE LET hint == size_hint[2] IN
         IF total > hint
         THEN {Panicked,
               IF FracLess(One, avg) THEN Some([wrapped |-> total - hint, per |-> avg])
               ELSE None}
         ELSE IF avg = Zero THEN {None}
         ELSE {Some(FracDiv(<<hint - total, 1>>, avg))}

\* lines 93-99: (total as f64 / size_hint as f64) * 100.0
percentage ==
    IF size_hint = None THEN None
    ELSE LET hint == size_hint[2] IN
         IF hint = 0 THEN Some(IF total = 0 THEN NaN ELSE Inf)
         ELSE Some(Frac(total * 100, hint))

TimeRemaining ==
    /\ eta = Unasked
    /\ UNCHANGED <<tvars, bvars>>
    /\ \E o \in time_remaining : eta' = o
    /\ UNCHANGED <<inner, size_hint, total, avg, buf, now, srcLen, results, pct>>

Percentage ==
    /\ pct = Unasked
    /\ UNCHANGED <<tvars, bvars>>
    /\ pct' = percentage
    /\ UNCHANGED <<inner, size_hint, total, avg, buf, now, srcLen, results, eta>>

NextM ==
    \/ \E d \in Delays : ReadErr(d)
    \/ \E d \in Delays, k \in 0..MaxChunk : ReadOk(d, k)
    \/ TimeRemaining
    \/ Percentage

InitReader == InitM /\ InitT /\ InitB

SpecM == InitReader /\ [][NextM]_vars

\* ------------------------------------------------------------------------
\* Properties of the measuring reader
\* ------------------------------------------------------------------------
Last(s) == s[Len(s)]

RECURSIVE SumOk(_)
SumOk(rs) ==
    IF rs = <<>> THEN 0
    ELSE (IF Last(rs) = Err THEN 0 ELSE Last(rs)[2]) + SumOk(SubSeq(rs, 1, Len(rs) - 1))

\* C5: time_remaining returns the absent variant whenever size_hint is
\* missing, avg is zero, total > size_hint, or the computed duration is not
\* finite (a division by a zero avg).
C5_EtaAbsent ==
    (eta # Unasked /\ (size_hint = None \/ avg = Zero \/ total > size_hint[2]))
        => eta = None

\* C6: a read that returns the wrapped source's error changes none of
\* total, avg, window start and window bytes.
C6_ErrLeavesStats ==
    [][(Len(results') = Len(results) + 1 /\ Last(results') = Err)
        => (total' = total /\ avg' = avg /\ buf' = buf)]_mvars

\* a failing read that came 10 ms or more after the window start, with
\* bytes in the window and a non-zero average
C6_Witness ==
    /\ results # <<>>
    /\ Last(results) = Err
    /\ now - buf.time >= UPDATE_RATE
    /\ buf.read > 0
    /\ avg # Zero

\* C7: total equals the sum of the byte counts the successful reads
\* returned, whatever failing reads and delays came between, and it never
\* decreases.
C7_TotalIsSum ==
    /\ [](total = SumOk(results))
    /\ [][total' >= total]_mvars

\* two successful reads of at least one byte around a failing read
C7_Witness ==
    /\ Len(results) >= 3
    /\ results[1] # Err /\ results[1][2] > 0
    /\ results[2] = Err
    /\ results[3] # Err /\ results[3][2] > 0
    /\ total >= 2

\* a non-empty source of srcLen bytes, wrapped with that size hint, has been
\* read to its end: the last read returned 0 with nothing left
AtEOF ==
    /\ srcLen > 0
    /\ size_hint = Some(srcLen)
    /\ inner = 0
    /\ results # <<>>
    /\ Last(results) = Ok(0)

Hundred == Some(<<100, 1>>)

\* C10 as claimed: at EOF total is n, percentage is 100.0 and avg is
\* positive, whatever the sizes and timing of the reads.
C10_AvgPositiveAtEOF ==
    AtEOF => /\ total = srcLen
             /\ (pct # Unasked => pct = Hundred)
             /\ FracLess(Zero, avg)

\* C10 amended: at EOF total is n and percentage is 100.0; avg is positive
\* exactly when bytes have been folded into it (total exceeds the bytes
\* still in the window), which takes a read that returns 10 ms or more
\* after its window started; while no read has come that late avg is 0.
C10_AtEOF ==
    AtEOF => /\ total = srcLen
             /\ (pct # Unasked => pct = Hundred)
             /\ (FracLess(Zero, avg) <=> buf.read < total)
             /\ (now < UPDATE_RATE => avg = Zero)

\* the source was read to its end with a positive average, percentage asked
C10_Witness ==
    /\ AtEOF
    /\ pct = Hundred
    /\ FracLess(Zero, avg)
    /\ total = srcLen

\* C11: whenever total has reached the n given to with_size_hint, n = 0
\* included, percentage returns 100.0.
C11_HundredAtHint ==
    (pct # Unasked /\ size_hint # None /\ total = size_hint[2]) => pct = Hundred

\* a read call has just returned Ok
ReadReturnedOk == Len(results') = Len(results) + 1 /\ Last(results') # Err

\* 0.5 * bytes / elapsed + 0.5 * old, bytes per second with elapsed in ms
HalfAndHalf(bytes, elapsed, old) ==
    FracAdd(Frac(bytes * 1000, 2 * elapsed), Frac(old[1], 2 * old[2]))

\* C16: a read that returns k bytes less than 10 ms after the window start
\* leaves avg and the window start and adds k to the window bytes; one that
\* returns 10 ms or more after it makes avg
\* 0.5 * (window bytes + k) / elapsed + 0.5 * avg, empties the window and
\* starts it at the current time.
C16_SmoothingIffDue ==
    [][ReadReturnedOk =>
          LET k == Last(results')[2]
              elapsed == now' - buf.time
          IN  IF elapsed < 10
              THEN avg' = avg /\ buf'.time = buf.time /\ buf'.read = buf.read + k
              ELSE /\ avg' = HalfAndHalf(buf.read + k, elapsed, avg)
                   /\ buf'.read = 0
                   /\ buf'.time = now']_mvars

\* a read of 1 byte returned at once and a read of 2 bytes exactly 10 ms
\* after the window start: avg is 0.5 * 3 / 0.010 = 150 bytes per second
C16_Witness ==
    /\ results = <<Ok(1), Ok(2)>>
    /\ now = 10
    /\ buf = [time |-> 10, read |-> 0]
    /\ avg = <<150, 1>>

\* C17: a read that returns 0 bytes leaves total; less than 10 ms after the
\* window start it changes nothing, and 10 ms or more after it the bytes of
\* the window are folded into avg (which a window of few bytes lowers) and
\* the window is emptied and started again.
C17_ZeroByteRead ==
    [][(ReadReturnedOk /\ Last(results') = Ok(0)) =>
          LET elapsed == now' - buf.time
          IN  /\ total' = total
              /\ IF elapsed < 10
                 THEN avg' = avg /\ buf' = buf
                 ELSE /\ avg' = HalfAndHalf(buf.read, elapsed, avg)
                      /\ buf' = [time |-> now', read |-> 0]]_mvars

\* 2 bytes read in 10 ms made avg 100 bytes per second; a read of 0 bytes
\* 10 ms later halved it and restarted the window
C17_Witness ==
    /\ results = <<Ok(2), Ok(0)>>
    /\ now = 20
    /\ total = 2
    /\ avg = <<50, 1>>
    /\ buf = [time |-> 20, read |-> 0]

\* ------------------------------------------------------------------------
\* tracing.rs: helpers
\* ------------------------------------------------------------------------
Rank(l) == CHOOSE i \in 1..Len(LevelOrder) : LevelOrder[i] = l

\* line 117: self.log_level.unwrap_or(tracing::Level::INFO)
MinLevel(b) == IF b.log_level = None THEN "INFO" ELSE b.log_level[2]

\* a filter that also drops the events at min_level
LevelEnabledStrict(min, level) == Rank(level) > Rank(min)

\* line 124: LevelFilter::from_level(min_level), the outermost layer, enables
\* an event when its level is at least min_level
LevelEnabled(min, level) == Rank(level) >= Rank(min)

\* line 87: Writer(Arc::new(Mutex::new(BufWriter::new(log_file)))), the file
\* handle at position 0
NewWriter(path) ==
    [path |-> path, owner |-> Free, poisoned |-> FALSE, buf |-> <<>>, pos |-> 0]

\* a write of cells at position pos of a file: cells past the end of the
\* file leave a hole before them, cells before it overwrite
WriteAt(f, pos, cells) ==
    LET end == IF Len(f) > pos + Len(cells) THEN Len(f) ELSE pos + Len(cells)
    IN  [i \in 1..end |->
            IF i > pos /\ i <= pos + Len(cells) THEN cells[i - pos]
            ELSE IF i <= Len(f) THEN f[i]
            ELSE Hole]

\* BufWriter::flush on writer w: the buffered cells go to the file, at the
\* position of w's handle
FlushedWriter(wr) == [wr EXCEPT !.buf = <<>>, !.pos = wr.pos + Len(wr.buf)]
\* a flush that puts the buffered cells at the start of the file
FlushedDiskPrepends(d, wr) == [d EXCEPT ![wr.path] = File(wr.buf \o d[wr.path].cells)]
FlushedDisk(d, wr) == [d EXCEPT ![wr.path] = File(WriteAt(d[wr.path].cells, wr.pos, wr.buf))]

InHook(t) == pc[t] \in {"hook_try", "hook_write", "hook_flush", "default_hook"}

\* a panic is raised on thread t while the process hook is the chain h: the
\* newest closure of the chain is invoked, or the default hook when init
\* installed none
Raise(t, h) ==
    /\ panics' = panics + 1
    /\ pan' = [pan EXCEPT ![t] = panics + 1]
    /\ hpos' = [hpos EXCEPT ![t] = 1]
    /\ IF h = <<>>
       THEN /\ pc' = [pc EXCEPT ![t] = "default_hook"]
            /\ invoked' = invoked
       ELSE /\ pc' = [pc EXCEPT ![t] = "hook_try"]
            /\ invoked' = invoked + 1

\* ------------------------------------------------------------------------
\* tracing.rs: TracingBuilder::init
\* ------------------------------------------------------------------------
\* lines 120-124: the layers of the subscriber
Layers(b, file_layer) ==
    [stdout_layer |-> b.log_to_stdout, tracy_layer |-> b.log_to_tracy,
     file_layer |-> file_layer, min_level |-> MinLevel(b)]

\* lines 174-179: TracingDefer::new
TracingDeferNew(is_tracy_enabled) ==
    /\ slept' = IF is_tracy_enabled THEN slept + 1 ELSE slept
    /\ defer' = Some([is_tracy_enabled |-> is_tracy_enabled])

\* line 86: File::create fails and expect panics; nothing else has happened
InitCreateFails(t, b) ==
    /\ b.log_to_file # None
    /\ ioErrors < MaxIoErrors
    /\ ioErrors' = ioErrors + 1
    /\ inits' = Append(inits, [log_to_file |-> b.log_to_file, ok |-> FALSE])
    /\ Raise(t, hook)
    /\ UNCHANGED <<ev, subscriber, hook, writers, disk, events, slept, defer,
                   installedBy, appPanics, delegated, aborted>>

\* a file layer that leaves the panic hook as it was
FileLayerKeepsHook(b) ==
    IF b.log_to_file = None
    THEN /\ UNCHANGED <<writers, disk, hook>>
    ELSE /\ writers' = Append(writers, NewWriter(b.log_to_file[2]))
         /\ disk' = [disk EXCEPT ![b.log_to_file[2]] = File(<<>>)]
         /\ UNCHANGED hook

\* lines 84-102: with a file path, the file is created (truncated when it
\* exists), a writer is made for it and the panic hook is replaced by a
\* closure that holds the writer and the hook taken
FileLayer(b) ==
    IF b.log_to_file = None
    THEN /\ UNCHANGED <<writers, disk, hook>>
    ELSE /\ writers' = Append(writers, NewWriter(b.log_to_file[2]))
         /\ disk' = [disk EXCEPT ![b.log_to_file[2]] = File(<<>>)]
         /\ hook' = <<Len(writers) + 1>> \o hook

\* an init that installs its subscriber over the installed one
InitReinstalls(t, b) ==
    /\ FileLayer(b)
    /\ subscriber' = Some(Layers(b, IF b.log_to_file = None THEN None
                                     ELSE Some(Len(writers) + 1)))
    /\ TracingDeferNew(b.log_to_tracy)
    /\ inits' = Append(inits, [log_to_file |-> b.log_to_file, ok |-> TRUE])
    /\ installedBy' = Some(b)
    /\ UNCHANGED <<pc, ev, pan, hpos, events, panics, appPanics, ioErrors,
                   invoked, delegated, aborted>>

\* lines 78-130 when no subscriber is installed yet
InitInstalls(t, b) ==
    /\ FileLayer(b)
    /\ subscriber = None
    /\ subscriber' = Some(Layers(b, IF b.log_to_file = None THEN None
                                     ELSE Some(Len(writers) + 1)))
    /\ TracingDeferNew(b.log_to_tracy)
    /\ inits' = Append(inits, [log_to_file |-> b.log_to_file, ok |-> TRUE])
    /\ installedBy' = Some(b)
    /\ UNCHANGED <<pc, ev, pan, hpos, events, panics, appPanics, ioErrors,
                   invoked, delegated, aborted>>

\* lines 78-128 when a subscriber is installed: set_global_default returns
\* an error and expect panics, after lines 84-102 have run
InitAlreadySet(t, b) ==
    /\ FileLayer(b)
    /\ subscriber # None
    /\ inits' = Append(inits, [log_to_file |-> b.log_to_file, ok |-> FALSE])
    /\ Raise(t, hook')
    /\ UNCHANGED <<ev, subscriber, events, slept, defer, installedBy, appPanics, ioErrors,
                   delegated, aborted>>

\* TracingBuilder::init.  std::panic::take_hook and set_hook take the
\* hook's lock for writing, which a thread running the hook holds for
\* reading: a call with a file path waits while a hook runs.
Init(t, b) ==
    /\ ~aborted
    /\ UNCHANGED <<mvars, bvars>>
    /\ pc[t] = "idle"
    /\ Len(inits) < MaxInits
    /\ b.log_to_file # None => \A u \in Threads : ~InHook(u)
    /\ \/ InitCreateFails(t, b)
       \/ InitInstalls(t, b)
       \/ InitAlreadySet(t, b)

\* ------------------------------------------------------------------------
\* tracing.rs: an event through the installed subscriber
\* ------------------------------------------------------------------------
\* lines 120-124: the sinks whose layer is handed an event of this level.
\* The level filter is the outermost layer: an event it disables reaches
\* no layer below it.
Dispatch(layers, level) ==
    IF ~LevelEnabled(layers.min_level, level) THEN {}
    ELSE (IF layers.stdout_layer THEN {"stdout"} ELSE {})
         \cup (IF layers.tracy_layer THEN {"tracy"} ELSE {})
         \cup (IF layers.file_layer # None THEN {"file"} ELSE {})

\* an event of some level is emitted on thread t
Emit(t, level) ==
    /\ ~aborted
    /\ UNCHANGED <<mvars, bvars>>
    /\ pc[t] = "idle"
    /\ Len(events) < MaxEvents
    /\ LET out == IF subscriber = None THEN {} ELSE Dispatch(subscriber[2], level)
       IN  /\ events' = Append(events, [by |-> t, level |-> level,
                                        installed |-> subscriber # None, out |-> out])
           /\ IF "file" \in out
              THEN /\ pc' = [pc EXCEPT ![t] = "ev_lock"]
                   /\ ev' = [ev EXCEPT ![t] = Len(events) + 1]
              ELSE UNCHANGED <<pc, ev>>
    /\ UNCHANGED <<pan, hpos, subscriber, hook, writers, disk, inits, installedBy, slept, defer,
                   panics, appPanics, ioErrors, invoked, delegated, aborted>>

\* the writer of the installed file layer
FileWriter == subscriber[2].file_layer[2]

\* lines 217-219: make_writer blocks until the lock is free.  On a poisoned
\* mutex lock() returns the guard inside the error and expect panics with
\* the guard alive: the hook runs with the lock held by this thread.
MakeWriter(t) ==
    /\ ~aborted
    /\ UNCHANGED <<mvars, bvars>>
    /\ pc[t] = "ev_lock"
    /\ writers[FileWriter].owner = Free
    /\ writers' = [writers EXCEPT ![FileWriter].owner = t]
    /\ IF writers[FileWriter].poisoned
       THEN /\ Raise(t, hook)
            /\ UNCHANGED ev
       ELSE /\ pc' = [pc EXCEPT ![t] = "ev_head"]
            /\ UNCHANGED <<ev, pan, hpos, panics, invoked>>
    /\ UNCHANGED <<subscriber, hook, disk, events, inits, installedBy, slept, defer,
                   appPanics, ioErrors, delegated, aborted>>

\* the part of its event that thread t writes next
EventChunk(t) ==
    Chunk("event", ev[t], FileWriter, IF pc[t] = "ev_head" THEN "head" ELSE "tail")

\* after a write call: the event goes on with its tail, or the guard is
\* dropped at the end of the event (or at an error) and the lock released
AfterWrite(t, done) ==
    IF done
    THEN /\ pc' = [pc EXCEPT ![t] = "idle"]
         /\ ev' = [ev EXCEPT ![t] = 0]
    ELSE /\ pc' = [pc EXCEPT ![t] = "ev_tail"]
         /\ UNCHANGED ev

\* a write that leaves the part in the BufWriter
WriteOkNoFlush(t) ==
    LET w == FileWriter
        done == pc[t] = "ev_tail"
    IN  /\ writers' = [writers EXCEPT ![w] = [@ EXCEPT !.buf = Append(@, EventChunk(t)),
                                                      !.owner = IF done THEN Free ELSE t]]
        /\ AfterWrite(t, done)
        /\ UNCHANGED <<disk, ioErrors>>

\* lines 197-201, both calls succeed: the part is written into the
\* BufWriter and the BufWriter is flushed to the file
WriteOk(t) ==
    LET w == FileWriter
        wr == [writers[w] EXCEPT !.buf = Append(@, EventChunk(t))]
        done == pc[t] = "ev_tail"
    IN  /\ disk' = FlushedDisk(disk, wr)
        /\ writers' = [writers EXCEPT ![w] = [FlushedWriter(wr) EXCEPT
                            !.owner = IF done THEN Free ELSE t]]
        /\ AfterWrite(t, done)
        /\ UNCHANGED ioErrors

\* line 198: self.0.write(buf) fails; write_all gives up on the event
WriteErr(t) ==
    /\ ioErrors < MaxIoErrors
    /\ ioErrors' = ioErrors + 1
    /\ writers' = [writers EXCEPT ![FileWriter].owner = Free]
    /\ AfterWrite(t, TRUE)
    /\ UNCHANGED disk

\* line 199: the part is in the BufWriter and self.flush() fails
FlushErr(t) ==
    /\ ioErrors < MaxIoErrors
    /\ ioErrors' = ioErrors + 1
    /\ writers' = [writers EXCEPT ![FileWriter] =
                      [@ EXCEPT !.buf = Append(@, EventChunk(t)), !.owner = Free]]
    /\ AfterWrite(t, TRUE)
    /\ UNCHANGED disk

\* MutexWriteGuard::write, called once for each part of the event
Write(t) ==
    /\ ~aborted
    /\ UNCHANGED <<mvars, bvars>>
    /\ pc[t] \in {"ev_head", "ev_tail"}
    /\ \/ WriteOk(t)
       \/ WriteErr(t)
       \/ FlushErr(t)
    /\ UNCHANGED <<pan, hpos, subscriber, hook, events, inits, installedBy, slept, defer,
                   panics, appPanics, invoked, delegated, aborted>>

\* ------------------------------------------------------------------------
\* tracing.rs: panics and the panic hook
\* ------------------------------------------------------------------------
\* a panic in code outside this crate, on a thread that holds no lock or
\* on a thread that is writing an event and holds the file writer's lock
Panic(t) ==
    /\ ~aborted
    /\ UNCHANGED <<mvars, bvars>>
    /\ pc[t] \in {"idle", "ev_head", "ev_tail"}
    /\ appPanics < MaxPanics
    /\ appPanics' = appPanics + 1
    /\ Raise(t, hook)
    /\ UNCHANGED <<ev, subscriber, hook, writers, disk, events, inits, installedBy, slept,
                   defer, ioErrors, delegated, aborted>>

\* the writer of the closure thread t is in
HookWriter(t) == hook[hpos[t]]

\* the panic report of thread t, as the closure writes it
Report(t) ==
    << Chunk("panic", pan[t], HookWriter(t), "head"),
       Chunk("panic", pan[t], HookWriter(t), "tail") >>

\* line 101: old_hook(info).  The hook taken at init is the closure of an
\* earlier init, which is invoked in its turn, or the default hook.
OldHook(t) ==
    /\ delegated' = delegated + 1
    /\ hpos' = [hpos EXCEPT ![t] = @ + 1]
    /\ IF hpos[t] < Len(hook)
       THEN /\ pc' = [pc EXCEPT ![t] = "hook_try"]
            /\ invoked' = invoked + 1
       ELSE /\ pc' = [pc EXCEPT ![t] = "default_hook"]
            /\ UNCHANGED invoked

\* a closure that waits for the lock
Lock(t) ==
    /\ ~aborted
    /\ UNCHANGED <<mvars, bvars>>
    /\ pc[t] = "hook_try"
    /\ writers[HookWriter(t)].owner = Free
    /\ IF ~writers[HookWriter(t)].poisoned
       THEN /\ writers' = [writers EXCEPT ![HookWriter(t)].owner = t]
            /\ pc' = [pc EXCEPT ![t] = "hook_write"]
            /\ UNCHANGED <<hpos, invoked, delegated>>
       ELSE /\ OldHook(t)
            /\ UNCHANGED writers
    /\ UNCHANGED <<ev, pan, subscriber, hook, disk, events, inits, installedBy, slept,
                   defer, panics, appPanics, ioErrors, aborted>>

\* lines 93 and 101: panic_wtr.0.try_lock() gives the guard when the lock
\* is free and the mutex not poisoned, and an error otherwise, without
\* waiting; on an error the block is skipped and old_hook is called
TryLock(t) ==
    /\ ~aborted
    /\ UNCHANGED <<mvars, bvars>>
    /\ pc[t] = "hook_try"
    /\ IF writers[HookWriter(t)].owner = Free /\ ~writers[HookWriter(t)].poisoned
       THEN /\ writers' = [writers EXCEPT ![HookWriter(t)].owner = t]
            /\ pc' = [pc EXCEPT ![t] = "hook_write"]
            /\ UNCHANGED <<hpos, invoked, delegated>>
       ELSE /\ OldHook(t)
            /\ UNCHANGED writers
    /\ UNCHANGED <<ev, pan, subscriber, hook, disk, events, inits, installedBy, slept,
                   defer, panics, appPanics, ioErrors, aborted>>

\* a panic inside the panic hook aborts the process
Abort(t) ==
    /\ aborted' = TRUE
    /\ pc' = [pc EXCEPT ![t] = "aborted"]

\* lines 94-98: the report is written into the BufWriter, or write_all
\* fails and expect panics inside the hook
WriteAll(t) ==
    /\ ~aborted
    /\ UNCHANGED <<mvars, bvars>>
    /\ pc[t] = "hook_write"
    /\ \/ /\ writers' = [writers EXCEPT ![HookWriter(t)].buf = @ \o Report(t)]
          /\ pc' = [pc EXCEPT ![t] = "hook_flush"]
          /\ UNCHANGED <<ioErrors, aborted>>
       \/ /\ ioErrors < MaxIoErrors
          /\ ioErrors' = ioErrors + 1
          /\ Abort(t)
          /\ UNCHANGED writers
    /\ UNCHANGED <<ev, pan, hpos, subscriber, hook, disk, events, inits, installedBy, slept,
                   defer, panics, appPanics, invoked, delegated>>

\* a closure that calls old_hook inside the if-let block, the guard alive
FlushKeepsLock(t) ==
    /\ ~aborted
    /\ UNCHANGED <<mvars, bvars>>
    /\ pc[t] = "hook_flush"
    /\ \/ /\ disk' = FlushedDisk(disk, writers[HookWriter(t)])
          /\ writers' = [writers EXCEPT ![HookWriter(t)] = FlushedWriter(@)]
          /\ OldHook(t)
          /\ UNCHANGED <<ioErrors, aborted>>
       \/ /\ ioErrors < MaxIoErrors
          /\ ioErrors' = ioErrors + 1
          /\ Abort(t)
          /\ UNCHANGED <<writers, disk, hpos, invoked, delegated>>
    /\ UNCHANGED <<ev, pan, subscriber, hook, events, inits, installedBy, slept,
                   defer, panics, appPanics>>

\* lines 99-101: the BufWriter is flushed, the guard is dropped at the end
\* of the if-let block and old_hook is called; or flush fails and expect
\* panics inside the hook
Flush(t) ==
    /\ ~aborted
    /\ UNCHANGED <<mvars, bvars>>
    /\ pc[t] = "hook_flush"
    /\ \/ /\ disk' = FlushedDisk(disk, writers[HookWriter(t)])
          /\ writers' = [writers EXCEPT ![HookWriter(t)] =
                            [FlushedWriter(@) EXCEPT !.owner = Free]]
          /\ OldHook(t)
          /\ UNCHANGED <<ioErrors, aborted>>
       \/ /\ ioErrors < MaxIoErrors
          /\ ioErrors' = ioErrors + 1
          /\ Abort(t)
          /\ UNCHANGED <<writers, disk, hpos, invoked, delegated>>
    /\ UNCHANGED <<ev, pan, subscriber, hook, events, inits, installedBy, slept,
                   defer, panics, appPanics>>

\* the default hook prints to stderr and returns; the thread unwinds and
\* ends, and a MutexGuard dropped by a panicking thread poisons its mutex
DefaultHook(t) ==
    /\ ~aborted
    /\ UNCHANGED <<mvars, bvars>>
    /\ pc[t] = "default_hook"
    /\ pc' = [pc EXCEPT ![t] = "dead"]
    /\ writers' = [w \in 1..Len(writers) |->
                      IF writers[w].owner = t
                      THEN [writers[w] EXCEPT !.owner = Free, !.poisoned = TRUE]
                      ELSE writers[w]]
    /\ UNCHANGED <<ev, pan, hpos, subscriber, hook, disk, events, inits, installedBy, slept,
                   defer, panics, appPanics, ioErrors, invoked, delegated, aborted>>

\* a drop that sleeps whether or not the profiler is enabled
TracingDeferDropAlways(guard) ==
    /\ slept' = slept + 1
    /\ defer' = Dropped(guard)

\* lines 182-188: Drop for TracingDefer
TracingDeferDrop(guard) ==
    /\ slept' = IF guard.is_tracy_enabled THEN slept + 1 ELSE slept
    /\ defer' = Dropped(guard)

\* the guard init returned goes out of scope on thread t
Drop(t) ==
    /\ ~aborted
    /\ UNCHANGED <<mvars, bvars>>
    /\ pc[t] = "idle"
    /\ defer # None /\ defer[1] = "Some"
    /\ TracingDeferDrop(defer[2])
    /\ UNCHANGED <<pc, ev, pan, hpos, subscriber, hook, writers, disk, events, inits,
                   installedBy, panics, appPanics, ioErrors, invoked, delegated, aborted>>

\* the builders with a file sink or with no sink at all
FileBuilders == {empty} \cup {with_file(empty, p) : p \in Paths}

\* the tracing setup beside a reader nobody reads
InitTracing ==
    /\ InitT
    /\ InitB
    /\ New(0) /\ srcLen = 0 /\ now = 0 /\ results = <<>> /\ eta = Unasked /\ pct = Unasked

\* the file writer, its lock and the panic hook: init with and without a
\* file sink, events, I/O errors and panics, in every interleaving
NextHook ==
    \/ \E t \in Threads, b \in FileBuilders : Init(t, b)
    \/ \E t \in Threads : Emit(t, "INFO")
    \/ \E t \in Threads : MakeWriter(t)
    \/ \E t \in Threads : Write(t)
    \/ \E t \in Threads : Panic(t)
    \/ \E t \in Threads : TryLock(t)
    \/ \E t \in Threads : WriteAll(t)
    \/ \E t \in Threads : Flush(t)
    \/ \E t \in Threads : DefaultHook(t)

SpecHook == InitTracing /\ [][NextHook]_vars

\* every builder and every event level, all calls made by the main thread
MainThread == "t1"

NextMain ==
    \/ \E b \in Builders : Init(MainThread, b)
    \/ \E level \in EventLevels : Emit(MainThread, level)
    \/ MakeWriter(MainThread)
    \/ Write(MainThread)
    \/ Panic(MainThread)
    \/ TryLock(MainThread)
    \/ WriteAll(MainThread)
    \/ Flush(MainThread)
    \/ DefaultHook(MainThread)
    \/ Drop(MainThread)

SpecMain == InitTracing /\ [][NextMain]_vars

\* every builder and every event level, on every thread
NextT ==
    \/ \E t \in Threads, b \in Builders : Init(t, b)
    \/ \E t \in Threads, level \in EventLevels : Emit(t, level)
    \/ \E t \in Threads : MakeWriter(t)
    \/ \E t \in Threads : Write(t)
    \/ \E t \in Threads : Panic(t)
    \/ \E t \in Threads : TryLock(t)
    \/ \E t \in Threads : WriteAll(t)
    \/ \E t \in Threads : Flush(t)
    \/ \E t \in Threads : DefaultHook(t)
    \/ \E t \in Threads : Drop(t)

Init0 == InitM /\ InitT /\ InitB
Next == NextM \/ NextT
Spec == Init0 /\ [][Next]_vars

\* ------------------------------------------------------------------------
\* Properties of the tracing setup
\* ------------------------------------------------------------------------
\* a step the panic hook of thread t can take
HookStep(t) == TryLock(t) \/ WriteAll(t) \/ Flush(t) \/ DefaultHook(t)

\* C1: a thread in the panic hook never waits for the file writer's lock:
\* whoever holds the lock, the panicking thread itself included, the hook
\* has a step it can take until it has run to completion (or the process
\* has aborted).
C1_HookNeverWaits ==
    \A t \in Threads : (InHook(t) /\ ~aborted) => ENABLED HookStep(t)

\* a thread that panicked while it held the installed file writer's lock
\* has run through every closure of the hook, still holding the lock
C1_Witness ==
    \E t \in Threads :
        /\ pc[t] = "default_hook"
        /\ hook # <<>>
        /\ subscriber # None
        /\ subscriber[2].file_layer # None
        /\ writers[FileWriter].owner = t
        /\ ~writers[FileWriter].poisoned

\* two chunks of the same event, or of the same panic report
SameWrite(c, d) == c.kind = d.kind /\ c.n = d.n /\ c.w = d.w

\* no tail of a write directly follows a chunk of another write: what is
\* before it is the head of its own write (or a hole of the file)
Atomic(f) ==
    \A i \in 2..Len(f) :
        (f[i].part = "tail" /\ f[i - 1] # Hole) =>
            (SameWrite(f[i - 1], f[i]) /\ f[i - 1].part = "head")

\* C2: in the log file the bytes of an event are never interleaved with
\* the bytes of another event or of a panic report.
C2_EventAtomic ==
    \A p \in Paths : Atomic(disk[p].cells)

\* C3: once an init call has succeeded every later init call fails, and
\* the installed subscriber stays the one the first call installed.
C3_OneSubscriber ==
    /\ [](\A i, j \in 1..Len(inits) : (i < j /\ inits[i].ok) => ~inits[j].ok)
    /\ [][subscriber # None => subscriber' = subscriber]_vars

\* an init call succeeded and a later one, of another builder, failed
C3_Witness ==
    /\ Len(inits) >= 2
    /\ inits[1].ok
    /\ ~inits[2].ok
    /\ inits[2].log_to_file # inits[1].log_to_file
    /\ subscriber # None

\* C4: every invocation of a closure installed by init calls the hook it
\* captured: when no closure is running, as many calls of old_hook have been
\* made as closures have been invoked.
C4_AlwaysDelegates ==
    (\A t \in Threads : pc[t] \notin {"hook_try", "hook_write", "hook_flush"})
        => delegated = invoked

\* C8: over any sequence of init calls the panic hook is replaced at most
\* once.
C8_HookReplacedOnce == Len(hook) <= 1

EnabledSinks(b) ==
    (IF b.log_to_stdout THEN {"stdout"} ELSE {})
    \cup (IF b.log_to_tracy THEN {"tracy"} ELSE {})
    \cup (IF b.log_to_file # None THEN {"file"} ELSE {})

\* C9: an event emitted after init whose level is strictly below the
\* min_level of the builder (INFO when with_level was not called) reaches
\* no sink, and an event at or above it reaches every enabled sink.
C9_LevelFilter ==
    \A i \in 1..Len(events) :
        events[i].installed =>
            LET b == installedBy[2]
                min == IF b.log_level = None THEN "INFO" ELSE b.log_level[2]
            IN  IF Rank(events[i].level) < Rank(min)
                THEN events[i].out = {}
                ELSE events[i].out = EnabledSinks(b)

\* with every sink enabled and no with_level call, a DEBUG event reached
\* no sink and an INFO event reached all three
C9_Witness ==
    /\ Len(events) >= 2
    /\ events[1].installed
    /\ events[1].level = "DEBUG" /\ events[1].out = {}
    /\ events[2].level = "INFO" /\ events[2].out = {"stdout", "tracy", "file"}
    /\ installedBy[2].log_level = None

\* C12: an init call replaces the panic hook when, and only when, its
\* builder has a file path: without one the hook after the call is the hook
\* before it, whatever the other options; with one (and the file created)
\* the hook is a new closure chained to the hook before the call.
C12_HookReplacedIffFile ==
    [][Len(inits') = Len(inits) + 1 =>
          IF Last(inits').log_to_file # None /\ ioErrors' = ioErrors
          THEN Len(hook') = Len(hook) + 1 /\ Tail(hook') = hook
          ELSE hook' = hook]_vars

\* an init with stdout and the profiler but no file left the hook alone, and
\* a later init with a file replaced it
C12_Witness ==
    /\ Len(inits) = 2
    /\ inits[1].log_to_file = None /\ inits[1].ok
    /\ installedBy[2].log_to_stdout /\ installedBy[2].log_to_tracy
    /\ inits[2].log_to_file # None
    /\ Len(hook) = 1
    /\ invoked = 1

\* the thread that emitted the event a cell of the file belongs to
EmittedBy(c) == events[c.n].by

Sleeps(guard, times) == IF guard.is_tracy_enabled THEN times ELSE 0

\* C14: the guard init returns has slept once when it is made and twice when
\* it has been dropped if the profiler is enabled, and never if it is not;
\* it is only made, and only sleeps, once the subscriber is installed (an
\* init call that fails neither makes a guard nor sleeps).
C14_GuardSleeps ==
    /\ [](IF defer = None THEN slept = 0
          ELSE /\ subscriber # None
               /\ defer[2].is_tracy_enabled = installedBy[2].log_to_tracy
               /\ slept = Sleeps(defer[2], IF defer[1] = "Some" THEN 1 ELSE 2))
    /\ [][(Len(inits') = Len(inits) + 1 /\ ~Last(inits').ok)
            => (slept' = slept /\ defer' = defer)]_vars

\* a guard made with the profiler enabled has been dropped and has slept
\* twice; a second init call failed and did not sleep
C14_Witness ==
    /\ defer # None /\ defer[1] = "Dropped"
    /\ defer[2].is_tracy_enabled
    /\ slept = 2
    /\ Len(inits) = 2 /\ ~inits[2].ok

\* ------------------------------------------------------------------------
\* tracing.rs: putting a builder together
\* ------------------------------------------------------------------------
Call(m, arg) == [m |-> m, arg |-> arg]

\* one with_ method is applied to the builder
Applied(c) ==
    /\ Len(calls) < MaxCalls
    /\ calls' = Append(calls, c)
    /\ UNCHANGED <<mvars, tvars>>

WithStdout ==
    /\ builder' = with_stdout(builder)
    /\ Applied(Call("with_stdout", ""))

WithTracy ==
    /\ builder' = with_tracy(builder)
    /\ Applied(Call("with_tracy", ""))

WithFile(path) ==
    /\ builder' = with_file(builder, path)
    /\ Applied(Call("with_file", path))

WithLevel(level) ==
    /\ builder' = with_level(builder, level)
    /\ Applied(Call("with_level", level))

NextBuilder ==
    \/ WithStdout
    \/ WithTracy
    \/ \E p \in Paths : WithFile(p)
    \/ \E l \in LevelInputs : WithLevel(l)

SpecBuilder == InitTracing /\ [][NextBuilder]_vars

\* the builder a sequence of calls gives, applied to empty() in that order
RECURSIVE Build(_)
Build(cs) ==
    IF cs = <<>> THEN empty
    ELSE LET b == Build(SubSeq(cs, 1, Len(cs) - 1))
             c == Last(cs)
         IN  IF c.m = "with_stdout" THEN with_stdout(b)
             ELSE IF c.m = "with_tracy" THEN with_tracy(b)
             ELSE IF c.m = "with_file" THEN with_file(b, c.arg)
             ELSE with_level(b, c.arg)

\* the orders n calls can be made in
Orders(n) == {f \in [1..n -> 1..n] : \A i, j \in 1..n : i # j => f[i] # f[j]}
Reordered(cs, f) == [i \in 1..Len(cs) |-> cs[f[i]]]

\* no method was called with two different arguments
OneArgEach(cs) == \A i, j \in 1..Len(cs) : cs[i].m = cs[j].m => cs[i].arg = cs[j].arg

\* C15: the builder does not depend on the order of the with_ calls: the
\* same calls (each method with one argument) made in any other order give
\* the same configuration, hence the same layers; and default() is stdout().
C15_OrderIndependent ==
    /\ OneArgEach(calls) =>
          \A f \in Orders(Len(calls)) :
              /\ Build(Reordered(calls, f)) = builder
              /\ Layers(Build(Reordered(calls, f)), None) = Layers(builder, None)
    /\ default = stdout

\* all four methods have been called, the file before stdout
C15_Witness ==
    /\ Len(calls) = 4
    /\ OneArgEach(calls)
    /\ {calls[i].m : i \in 1..4} = {"with_stdout", "with_tracy", "with_file", "with_level"}
    /\ \E i, j \in 1..4 : i < j /\ calls[i].m = "with_file" /\ calls[j].m = "with_stdout"
    /\ builder = with_level(with_tracy(with_file(stdout, "log.txt")), "WARN")

\* C18: absent I/O errors, a writer whose lock no thread holds has nothing
\* in its BufWriter: what events and panic reports wrote through it has
\* been flushed to the file before the lock was released (and, with one
\* writer on the file, is in the file up to the handle's position).
C18_FlushedBeforeRelease ==
    ioErrors = 0 =>
        \A w \in 1..Len(writers) :
            writers[w].owner = Free =>
                /\ writers[w].buf = <<>>
                /\ Len(writers) = 1 => Len(disk[writers[w].path].cells) = writers[w].pos

\* after one init, an event and a panic report are whole in the file, the
\* lock is free and the BufWriter empty
C18_Witness ==
    /\ ioErrors = 0
    /\ Len(writers) = 1
    /\ writers[1].owner = Free /\ writers[1].buf = <<>> /\ writers[1].pos = 4
    /\ \E p \in Paths :
          /\ Len(disk[p].cells) = 4
          /\ \E i, j \in 1..4 : disk[p].cells[i].kind = "event" /\ disk[p].cells[j].kind = "panic"

\* the closures of the hook chain that have called their old_hook on thread
\* t, which is now running: the ones above the closure t is in
Delegating(t) ==
    IF InHook(t) THEN {i \in 1..Len(hook) : i < hpos[t]} ELSE {}

\* C19 as claimed: while the hook a closure captured runs, the thread does
\* not hold the lock of the closure's writer, so an event the captured
\* hook emitted to the file could take it.
C19_NoLockInOldHook ==
    \A t \in Threads : \A i \in Delegating(t) : writers[hook[i]].owner # t

\* C19 amended: while the hook a closure captured runs, the thread holds no
\* lock the closure took: if it holds the lock of the closure's writer, it
\* held it when the panic was raised, inside the write of an event to the
\* installed file layer.
C19_ClosureLockReleased ==
    \A t \in Threads : \A i \in Delegating(t) :
        writers[hook[i]].owner = t =>
            /\ ev[t] # 0
            /\ subscriber # None
            /\ subscriber[2].file_layer = Some(hook[i])

\* a closure took the free lock, wrote and flushed its report, and the
\* default hook now runs with the lock free
C19_Witness ==
    \E t \in Threads :
        /\ pc[t] = "default_hook"
        /\ Len(hook) = 1
        /\ ev[t] = 0
        /\ writers[hook[1]].owner = Free
        /\ \E p \in Paths : \E i \in 1..Len(disk[p].cells) :
              disk[p].cells[i] = Chunk("panic", pan[t], hook[1], "tail")

\* an init call has just failed because a subscriber was installed
InitFailedAlreadySet ==
    /\ Len(inits') = Len(inits) + 1
    /\ ~Last(inits').ok
    /\ subscriber # None

\* C20: an init call that fails because a subscriber is already installed
\* leaves the file at its path as it was: not created, not truncated.
C20_FailingInitLeavesFile ==
    [][InitFailedAlreadySet => disk' = disk]_vars

====
